---- MODULE Spec2Model ----
(***************************************************************************)
(* The HTTP client of clockify-cli (src/http/http.go): NewHttpClient, the  *)
(* header-injecting transport, Client.NewRequest, Client.Do and            *)
(* Client.logf.                                                            *)
(*                                                                         *)
(* Texts are sequences of lexical items.  A JSON text is a sequence of     *)
(* JSON tokens, a URL string is a sequence of URL pieces (":", "/", "?"    *)
(* and the texts between them).  Encoding, decoding, URL parsing and URL   *)
(* printing work on these sequences.                                       *)
(*                                                                         *)
(* A call of Do waits twice, for the response (line 130) and for the body  *)
(* (line 138), and the steps of other goroutines come between its own.     *)
(* The program has no lock.  Where two goroutines reach the same header    *)
(* map, body buffer, Logger field or destination without an order between  *)
(* them, the steps are split at these accesses and every outcome is a     *)
(* behaviour: the accesses land in either order, a value is left torn, or  *)
(* the runtime stops the program (fatal).                                  *)
(***************************************************************************)
EXTENDS Integers, Sequences, FiniteSets, TLC

VARIABLES
    client,      \* the *Client built by NewHttpClient, or NoClient
    ctorRet,     \* what NewHttpClient returned
    heap,        \* the *http.Request objects that are alive, by place
    build,       \* the call of NewRequest that is under way
    calls,       \* for each goroutine, the call of Do it is in
    newReqRet,   \* what the NewRequest that returned in this step returned
    shadowReq,   \* the same return on the client with Logger flipped
    wire,        \* the request the wrapped transport got in this step
    doRet,       \* what the Do that returned in this step returned
    shadowDo,    \* the same return on the client with Logger flipped
    fatal        \* why the runtime stopped the program, "" while it runs

vars ==
    <<client, ctorRet, heap, build, calls, newReqRet, shadowReq, wire,
      doRet, shadowDo, fatal>>

-----------------------------------------------------------------------------
(* Bounds of the model *)

\* how many X-Api-Key values the caller may have put on a request
MaxPreset == 1
\* how many times the servers redirect a call where the redirect policy
\* is not looked at
MaxRedirects == 1
\* how many query parameters a QueryAppender value carries at most
MaxParams == 1

-----------------------------------------------------------------------------
(* JSON texts *)

Tok(t) == [t |-> t, s |-> "", n |-> 0]
StrTok(s) == [t |-> "str", s |-> s, n |-> 0]
NumTok(n) == [t |-> "num", s |-> "", n |-> n]

\* a token that is a complete JSON value: string, integer, non-integer
\* number, null, true, false
Scalar(tok) == tok.t \in {"str", "num", "frac", "null", "true", "false"}

ScanFail(e) ==
    [err |-> e, rest |-> <<>>, kind |-> "", tok |-> Tok(""), members |-> <<>>]

\* white space is skipped in front of every token
RECURSIVE SkipSpace(_)
SkipSpace(b) ==
    IF b # <<>> /\ Head(b).t = "ws" THEN SkipSpace(Tail(b)) ELSE b

RECURSIVE ScanBegin(_)
RECURSIVE ScanMembers(_, _, _)
RECURSIVE ScanElements(_, _)

ScanDone(kind, tok, members, rest) ==
    [err |-> "", rest |-> rest, kind |-> kind, tok |-> tok, members |-> members]

\* the first token of a value
ScanBegin(b) ==
    IF b = <<>> THEN ScanFail("unexpected EOF")
    ELSE IF Scalar(Head(b)) THEN ScanDone(Head(b).t, Head(b), <<>>, Tail(b))
    ELSE IF Head(b).t = "{" THEN ScanMembers(Tail(b), <<>>, TRUE)
    ELSE IF Head(b).t = "[" THEN ScanElements(Tail(b), TRUE)
    ELSE ScanFail("syntax")

\* v is the scanned value of the member key and rest what follows it after
\* white space: "," or "}"
AfterMember(key, v, rest, acc) ==
    IF rest = <<>> THEN ScanFail("unexpected EOF")
    ELSE IF Head(rest).t = "}"
    THEN ScanDone("object", Tok("{"),
                  Append(acc, [key |-> key, kind |-> v.kind, tok |-> v.tok]),
                  Tail(rest))
    ELSE IF Head(rest).t = ","
    THEN ScanMembers(Tail(rest),
                     Append(acc, [key |-> key, kind |-> v.kind, tok |-> v.tok]),
                     FALSE)
    ELSE ScanFail("syntax")

\* the end of a member, v being what the scan of its value gave
MemberEnd(key, v, acc) ==
    IF v.err # "" THEN v ELSE AfterMember(key, v, SkipSpace(v.rest), acc)

\* the colon and the value of the member key, b being what follows the key
\* after white space
ScanColon(key, b, acc) ==
    IF b = <<>> THEN ScanFail("unexpected EOF")
    ELSE IF Head(b).t # ":" THEN ScanFail("syntax")
    ELSE MemberEnd(key, ScanBegin(SkipSpace(Tail(b))), acc)

\* the key of a member, or "}" right after "{"
ScanKey(b, acc, first) ==
    IF b = <<>> THEN ScanFail("unexpected EOF")
    ELSE IF first /\ Head(b).t = "}" THEN ScanDone("object", Tok("{"), acc, Tail(b))
    ELSE IF Head(b).t # "str" THEN ScanFail("syntax")
    ELSE ScanColon(Head(b).s, SkipSpace(Tail(b)), acc)

\* the members of an object, b being what follows "{" or ","
ScanMembers(b, acc, first) == ScanKey(SkipSpace(b), acc, first)

\* rest is what follows an element after white space: "," or "]"
AfterElement(rest) ==
    IF rest = <<>> THEN ScanFail("unexpected EOF")
    ELSE IF Head(rest).t = "]" THEN ScanDone("array", Tok("["), <<>>, Tail(rest))
    ELSE IF Head(rest).t = "," THEN ScanElements(Tail(rest), FALSE)
    ELSE ScanFail("syntax")

\* the end of an element, v being what the scan of it gave
ElementEnd(v) ==
    IF v.err # "" THEN v ELSE AfterElement(SkipSpace(v.rest))

\* an element, or "]" right after "["
ScanElement(b, first) ==
    IF b = <<>> THEN ScanFail("unexpected EOF")
    ELSE IF first /\ Head(b).t = "]" THEN ScanDone("array", Tok("["), <<>>, Tail(b))
    ELSE ElementEnd(ScanBegin(b))

\* the elements of an array, b being what follows "[" or ","
ScanElements(b, first) == ScanElement(SkipSpace(b), first)

\* encoding/json's scanner reading ONE value from the front of b
ScanValue(b) == ScanBegin(SkipSpace(b))

\* encoding/json finds the field of a key without regard to case; these are
\* the spellings of the two field names among the model's texts
FoldName(key) ==
    IF key \in {"message", "Message", "MESSAGE"} THEN "message"
    ELSE IF key \in {"code", "Code", "CODE"} THEN "code"
    ELSE key

\* json.Unmarshal storing one object member into a struct with the fields
\* Message string `json:"message"` and Code int `json:"code"`
SetField(val, m) ==
    IF FoldName(m.key) = "message"
    THEN IF m.kind = "str" THEN [err |-> "", val |-> [val EXCEPT !.Message = m.tok.s]]
         ELSE IF m.kind = "null" THEN [err |-> "", val |-> val]
         ELSE [err |-> "type", val |-> val]
    ELSE IF FoldName(m.key) = "code"
    THEN IF m.kind = "num" THEN [err |-> "", val |-> [val EXCEPT !.Code = m.tok.n]]
         ELSE IF m.kind = "null" THEN [err |-> "", val |-> val]
         ELSE [err |-> "type", val |-> val]
    ELSE [err |-> "", val |-> val]

\* the members are stored in order; the first type error is kept and the
\* remaining members are still stored
RECURSIVE SetFields(_, _, _)
StoreNext(members, r, err) ==
    SetFields(members, r.val, IF err = "" THEN r.err ELSE err)
SetFields(members, val, err) ==
    IF members = <<>> THEN [err |-> err, val |-> val]
    ELSE StoreNext(Tail(members), SetField(val, Head(members)), err)

\* json.Unmarshal of the scanned value v into the struct val
Unmarshal(v, val) ==
    IF v.err # "" THEN [err |-> v.err, val |-> val]
    ELSE IF v.kind = "null" THEN [err |-> "", val |-> val]
    ELSE IF v.kind = "object" THEN SetFields(v.members, val, "")
    ELSE [err |-> "type", val |-> val]

\* json.Decoder.Decode(&val) on what is left of the buffer after white space
DecodeValue(b0, val) ==
    IF b0 = <<>> THEN [err |-> "EOF", val |-> val]
    ELSE Unmarshal(ScanBegin(b0), val)

\* json.Decoder.Decode(&val) on the buffer b, val being such a struct
Decode(b, val) == DecodeValue(SkipSpace(b), val)

\* json.Encoder.Encode(v) of a body value: the object and a newline, or an
\* UnsupportedTypeError
EncodeWithoutCode(v) ==
    IF v.kind = "chan" THEN [err |-> "unsupported type", buf |-> <<>>]
    ELSE [err |-> "",
          buf |-> <<Tok("{"), StrTok("message"), Tok(":"), StrTok(v.Message),
                    Tok("}"), Tok("ws")>>]

Encode(v) ==
    IF v.kind = "chan" THEN [err |-> "unsupported type", buf |-> <<>>]
    ELSE [err |-> "",
          buf |-> <<Tok("{"), StrTok("message"), Tok(":"), StrTok(v.Message),
                    Tok(","), StrTok("code"), Tok(":"), NumTok(v.Code),
                    Tok("}"), Tok("ws")>>]

-----------------------------------------------------------------------------
(* URL strings and net/url *)

NoURL ==
    [Scheme |-> "", Opaque |-> <<>>, Host |-> <<>>, Path |-> <<>>,
     ForceQuery |-> FALSE, RawQuery |-> <<>>, OmitHost |-> FALSE]

\* the first position of piece x in s, 0 when absent
RECURSIVE IndexFrom(_, _, _)
IndexFrom(s, x, i) ==
    IF i > Len(s) THEN 0 ELSE IF s[i] = x THEN i ELSE IndexFrom(s, x, i + 1)
IndexOf(s, x) == IndexFrom(s, x, 1)

\* the last position of piece x in s, 0 when absent
RECURSIVE LastIndexFrom(_, _, _)
LastIndexFrom(s, x, i) ==
    IF i < 1 THEN 0 ELSE IF s[i] = x THEN i ELSE LastIndexFrom(s, x, i - 1)
LastIndexOf(s, x) == LastIndexFrom(s, x, Len(s))

\* strings.HasPrefix, strings.Count, and what strings.Cut leaves in front
HasPrefix(s, p) == Len(s) >= Len(p) /\ SubSeq(s, 1, Len(p)) = p
Count(s, x) == Cardinality({i \in 1..Len(s) : s[i] = x})
Before(s, x) ==
    IF IndexOf(s, x) = 0 THEN s ELSE SubSeq(s, 1, IndexOf(s, x) - 1)

\* a piece holding a percent sign that no two hex digits follow
BadEscape(s) == \E i \in 1..Len(s) : s[i] = "%zz"

\* the texts of the model that are made of a letter and then letters, digits,
\* "+", "-" and "." only, the texts with digits only, and strings.ToLower
SchemeNames ==
    {"https", "HTTPS", "http", "api", "v1", "api.clockify.me", "workspaces",
     "users", "moved", "h"}
PortTexts == {"8080"}
ToLower(s) == IF s = "HTTPS" THEN "https" ELSE s

URLError(e) == [err |-> e, url |-> NoURL]

\* URL.setPath: the path must unescape
setPath(u, path) ==
    IF BadEscape(path) THEN URLError("invalid URL escape")
    ELSE [err |-> "", url |-> [u EXCEPT !.Path = path]]

\* validOptionalPort, port being what follows the last ":" of the host
validOptionalPort(port) ==
    port = <<>> \/ (Len(port) = 1 /\ port[1] \in PortTexts)

\* parseHost: the error it gives, colon being the place of the last ":"
parseHost(host, colon) ==
    IF colon # 0 /\ ~validOptionalPort(SubSeq(host, colon + 1, Len(host)))
    THEN "invalid port"
    ELSE IF BadEscape(host) THEN "invalid URL escape"
    ELSE ""

\* parseAuthority and setPath
ParseHost(u, authority, rest, e) ==
    IF e # "" THEN URLError(e)
    ELSE setPath([u EXCEPT !.Host = authority], rest)

\* the authority is what follows "//" up to the next "/", at position i
SplitAuthority(u, a, i) ==
    IF i = 0
    THEN ParseHost(u, a, <<>>, parseHost(a, LastIndexOf(a, ":")))
    ELSE ParseHost(u, SubSeq(a, 1, i - 1), SubSeq(a, i, Len(a)),
                   parseHost(SubSeq(a, 1, i - 1),
                             LastIndexOf(SubSeq(a, 1, i - 1), ":")))

\* url.parse: "//" starts an authority, "///" does not unless a scheme came
ParseAuthority(u, rest) ==
    IF /\ u.Scheme # "" \/ ~HasPrefix(rest, <<"/", "/", "/">>)
       /\ HasPrefix(rest, <<"/", "/">>)
    THEN SplitAuthority(u, SubSeq(rest, 3, Len(rest)),
                        IndexOf(SubSeq(rest, 3, Len(rest)), "/"))
    ELSE IF u.Scheme # "" /\ HasPrefix(rest, <<"/">>)
    THEN setPath([u EXCEPT !.OmitHost = TRUE], rest)
    ELSE setPath(u, rest)

\* url.parse: a rest that does not start with "/" is opaque after a scheme,
\* and without one its first segment holds no colon
ParseRootless(u, rest) ==
    IF HasPrefix(rest, <<"/">>) THEN ParseAuthority(u, rest)
    ELSE IF u.Scheme # "" THEN [err |-> "", url |-> [u EXCEPT !.Opaque = rest]]
    ELSE IF IndexOf(Before(rest, "/"), ":") # 0
    THEN URLError("first path segment in URL cannot contain colon")
    ELSE ParseAuthority(u, rest)

\* url.parse: a lone "?" at the end forces an empty query; else the query is
\* what follows the first "?", at position q
ParseQuery(scheme, rest, q) ==
    IF rest # <<>> /\ rest[Len(rest)] = "?" /\ Count(rest, "?") = 1
    THEN ParseRootless([NoURL EXCEPT !.Scheme = scheme, !.ForceQuery = TRUE],
                       SubSeq(rest, 1, Len(rest) - 1))
    ELSE IF q = 0
    THEN ParseRootless([NoURL EXCEPT !.Scheme = scheme], rest)
    ELSE ParseRootless([NoURL EXCEPT !.Scheme = scheme,
                                     !.RawQuery = SubSeq(rest, q + 1, Len(rest))],
                       SubSeq(rest, 1, q - 1))

\* getScheme: the text in front of the first ":" when it is a scheme name
getScheme(s) ==
    IF s # <<>> /\ Head(s) = ":"
    THEN [err |-> "missing protocol scheme", scheme |-> "", rest |-> <<>>]
    ELSE IF Len(s) >= 2 /\ s[1] \in SchemeNames /\ s[2] = ":"
    THEN [err |-> "", scheme |-> s[1], rest |-> SubSeq(s, 3, Len(s))]
    ELSE [err |-> "", scheme |-> "", rest |-> s]

\* url.Parse, g being what getScheme gave
ParseScheme(g) ==
    IF g.err # "" THEN URLError(g.err)
    ELSE ParseQuery(ToLower(g.scheme), g.rest, IndexOf(g.rest, "?"))

\* url.Parse
ParseURL(s) == ParseScheme(getScheme(s))

\* URL.String, the part between the scheme and the query of a URL that is
\* not opaque
HierString(u) ==
    (IF /\ u.Scheme # "" \/ u.Host # <<>>
        /\ ~(u.OmitHost /\ u.Host = <<>>)
        /\ u.Host # <<>> \/ u.Path # <<>>
     THEN <<"/", "/">> \o u.Host ELSE <<>>)
    \o (IF u.Path # <<>> /\ Head(u.Path) # "/" /\ u.Host # <<>>
        THEN <<"/">> ELSE <<>>)
    \o (IF u.Scheme = "" /\ u.Host = <<>> /\ IndexOf(Before(u.Path, "/"), ":") # 0
        THEN <<".", "/">> ELSE <<>>)
    \o u.Path

\* URL.String
URLString(u) ==
    (IF u.Scheme # "" THEN <<u.Scheme, ":">> ELSE <<>>)
    \o (IF u.Opaque # <<>> THEN u.Opaque ELSE HierString(u))
    \o (IF u.ForceQuery \/ u.RawQuery # <<>> THEN <<"?">> \o u.RawQuery ELSE <<>>)

\* the elements of a path between its slashes (<<>> where two slashes meet)
RECURSIVE Elements(_, _)
Elements(p, cur) ==
    IF p = <<>> THEN <<cur>>
    ELSE IF Head(p) = "/" THEN <<cur>> \o Elements(Tail(p), <<>>)
    ELSE Elements(Tail(p), Append(cur, Head(p)))

\* ".." in resolvePath: dst loses its last element; index is the place of
\* the last "/" in str, which is dst without its first "/"
RECURSIVE RemoveDots(_, _, _)
DotDot(elems, str, index, first) ==
    IF index = 0 THEN RemoveDots(elems, <<"/">>, TRUE)
    ELSE RemoveDots(elems, <<"/">> \o SubSeq(str, 1, index - 1), first)

\* the loop of resolvePath: dst is the text built so far
RemoveDots(elems, dst, first) ==
    IF elems = <<>> THEN dst
    ELSE IF Head(elems) = <<".">> THEN RemoveDots(Tail(elems), dst, FALSE)
    ELSE IF Head(elems) = <<"..">>
    THEN DotDot(Tail(elems), Tail(dst), LastIndexOf(Tail(dst), "/"), first)
    ELSE RemoveDots(Tail(elems),
                    dst \o (IF first THEN <<>> ELSE <<"/">>) \o Head(elems),
                    FALSE)

\* the end of resolvePath: a "/" after a last element "." or "..", and one
\* "/" only at the front
TrimSlash(dst) == IF Len(dst) > 1 /\ dst[2] = "/" THEN Tail(dst) ELSE dst
CleanPath(elems) ==
    TrimSlash(RemoveDots(elems, <<"/">>, TRUE)
              \o (IF elems[Len(elems)] \in {<<".">>, <<"..">>}
                  THEN <<"/">> ELSE <<>>))

\* resolvePath(base, ref)
resolvePath(base, ref) ==
    IF ref = <<>>
    THEN IF base = <<>> THEN <<>> ELSE CleanPath(Elements(base, <<>>))
    ELSE IF Head(ref) # "/"
    THEN CleanPath(Elements(SubSeq(base, 1, LastIndexOf(base, "/")) \o ref, <<>>))
    ELSE CleanPath(Elements(ref, <<>>))

\* URL.ResolveReference
ResolveReference(u, ref) ==
    IF ref.Scheme # "" \/ ref.Host # <<>>
    THEN [ref EXCEPT !.Scheme = IF ref.Scheme = "" THEN u.Scheme ELSE ref.Scheme,
                     !.Path = resolvePath(ref.Path, <<>>)]
    ELSE IF ref.Opaque # <<>>
    THEN [ref EXCEPT !.Scheme = u.Scheme, !.Host = <<>>, !.Path = <<>>]
    ELSE IF ref.Path = <<>> /\ u.Opaque # <<>>
    THEN [ref EXCEPT !.Scheme = u.Scheme, !.Opaque = u.Opaque,
                     !.Host = <<>>, !.Path = <<>>,
                     !.RawQuery = IF ~ref.ForceQuery /\ ref.RawQuery = <<>>
                                  THEN u.RawQuery ELSE ref.RawQuery]
    ELSE [ref EXCEPT !.Scheme = u.Scheme,
                     !.Host = u.Host,
                     !.Path = resolvePath(u.Path, ref.Path),
                     !.RawQuery = IF /\ ref.Path = <<>> /\ ~ref.ForceQuery
                                     /\ ref.RawQuery = <<>>
                                  THEN u.RawQuery ELSE ref.RawQuery]

\* URL.Parse(ref): the parsed reference is resolved against the receiver
ResolveParsed(baseURL, p) ==
    IF p.err # "" THEN p
    ELSE [err |-> "", url |-> ResolveReference(baseURL, p.url)]

\* c.baseURL.Parse(strings.Join([]string{c.baseURL.Path, uri}, "/"))
ResolveURI(baseURL, uri) ==
    ResolveParsed(baseURL, ParseURL(baseURL.Path \o <<"/">> \o uri))

\* net/http's removeEmptyPort: a host that ends with ":" loses it
removeEmptyPort(host) ==
    IF host # <<>> /\ host[Len(host)] = ":"
    THEN SubSeq(host, 1, Len(host) - 1) ELSE host

-----------------------------------------------------------------------------
(* Errors *)

\* an error value: its dynamic type, the fields of an http.Error, and
\* whether pkg/errors.WithStack has wrapped it
ErrorValue(kind, message, code) ==
    [kind |-> kind, Message |-> message, Code |-> code, stack |-> FALSE]
NilError == ErrorValue("nil", "", 0)

\* a value of the struct type Error
APIError(val) == ErrorValue("http.Error", val.Message, val.Code)
ZeroError == [Message |-> "", Code |-> 0]

ErrorMissingAPIKey == ErrorValue("api Key must be informed", "", 0)
ErrorNotFound == APIError([Message |-> "Nothing was found", Code |-> 0])

\* stackedErrors.WithStack: nil stays nil
WithStack(e) == IF e = NilError THEN NilError ELSE [e EXCEPT !.stack = TRUE]
\* stackedErrors.Cause: the error under the stack
Cause(e) == [e EXCEPT !.stack = FALSE]

-----------------------------------------------------------------------------
(* The Client and its construction *)

\* c.Transport and c.Logger are interface values, two words in memory: tab
\* says which method is called, data what it is called on; to is what a
\* store under way is storing, "" when there is none.  A store writes the
\* two words one after the other, with no lock against the reads of the
\* calls.
Whole(t) == [tab |-> t, data |-> t, to |-> ""]

\* c.Transport: "keyed" is transport{apiKey, http.DefaultTransport},
\* "plain" another RoundTripper the caller puts in its place
NoTransport == Whole("")

\* what a read of c.Transport gives.  During a store the two words may be
\* of different values: transport.RoundTrip is then called on what is no
\* transport ("torn keyed"), or the RoundTrip of the other on the transport
\* ("torn plain").
Read(t) ==
    IF t.tab = t.data THEN t.tab
    ELSE IF t.tab = "keyed" THEN "torn keyed" ELSE "torn plain"

\* c.Logger: "nil", "log" a Logger, "other" a Logger of another type
NoLogger == Whole("nil")

\* the test of line 65, c.Logger == nil: on the word that says the type
IsNil(l) == l.tab = "nil"

\* what line 69, c.Logger.Printf(format, v), comes to on the two words as
\* they are now: "panic" when there is no method to call or the method is
\* called on nil, "Printf" when the two words are of one Logger, "torn"
\* when the Printf of one Logger is called on the data of the other
Called(l) ==
    IF l.tab = "nil" \/ l.data = "nil" THEN "panic"
    ELSE IF l.tab = l.data THEN "Printf"
    ELSE "torn"

\* a *Client: baseURL, the fields of the embedded http.Client that the model
\* follows (Transport; CheckRedirect: "default" is nil, "last" a policy that
\* returns http.ErrUseLastResponse), and Logger.  Of the
\* other two fields of http.Client, Timeout makes a call fail or the read of
\* the body break off, which the calls of the model do at any time; Jar is
\* nil, as NewHttpClient leaves it, and Cookie is not among the headers
\* followed.
NoClient ==
    [ok |-> FALSE, baseURL |-> NoURL, apiKey |-> "", Transport |-> NoTransport,
     CheckRedirect |-> "", Logger |-> NoLogger]

\* the end of NewHttpClient, p being what url.Parse(baseURL) gave
ClientFor(p, apiKey) ==
    IF p.err # ""
    THEN [client |-> NoClient, err |-> WithStack(ErrorValue(p.err, "", 0))]
    ELSE [client |-> [ok |-> TRUE, baseURL |-> p.url, apiKey |-> apiKey,
                      Transport |-> Whole("keyed"),
                      CheckRedirect |-> "default",
                      Logger |-> NoLogger],
          err |-> NilError]

NewHttpClientParsesFirst(baseURL, apiKey) ==
    IF ParseURL(baseURL).err = "" /\ apiKey = ""
    THEN [client |-> NoClient, err |-> WithStack(ErrorMissingAPIKey)]
    ELSE ClientFor(ParseURL(baseURL), apiKey)

NewHttpClientResult(baseURL, apiKey) ==
    IF apiKey = ""
    THEN [client |-> NoClient, err |-> WithStack(ErrorMissingAPIKey)]
    ELSE ClientFor(ParseURL(baseURL), apiKey)

\* the same Client with the Logger field set the other way
OtherLogger(c) ==
    [c EXCEPT !.Logger = IF IsNil(@) THEN Whole("log") ELSE NoLogger]


\* c.Logger.Printf(format, v), line 69: Printf gets the format and ONE
\* argument, the slice v, and prints the *bytes.Buffer among the arguments
\* through its String method, which leaves the buffer's contents in place
Printf(format, v, buf) ==
    [out |-> <<[format |-> format, args |-> <<v>>, text |-> buf]>>, buf |-> buf]

\* Client.logf when nothing stores to c.Logger between its two reads of the
\* field (lines 65 and 69): nothing without a Logger, Printf with one
logfDrainsBuffer(c, format, v, buf) ==
    IF IsNil(c.Logger) THEN [out |-> <<>>, buf |-> buf]
    ELSE [Printf(format, v, buf) EXCEPT !.buf = <<>>]

logf(c, format, v, buf) ==
    IF IsNil(c.Logger) THEN [out |-> <<>>, buf |-> buf]
    ELSE Printf(format, v, buf)

-----------------------------------------------------------------------------
(* Requests *)

HeaderKeys == {"X-Api-Key", "Accept", "Content-Type", "Referer"}
NoHeader == [k \in HeaderKeys |-> <<>>]
\* http.Header.Set: the one value replaces what was there
HeaderSet(h, k, v) == [h EXCEPT ![k] = <<v>>]

\* a *http.Request: Body is what http.NewRequest was given (what GetBody
\* gives again), BodyLeft whether the reader req.Body still holds it
NoRequest ==
    [ok |-> FALSE, Method |-> "", URL |-> NoURL, Header |-> NoHeader,
     HasBody |-> FALSE, Body |-> <<>>, BodyLeft |-> FALSE]

\* body values: nil, a struct, a struct that is a QueryAppender, a value
\* encoding/json cannot encode
Nil == [kind |-> "nil", Message |-> "", Code |-> 0, params |-> <<>>]
IsQueryAppender(v) == v.kind = "query"

\* AppendToQuery of a QueryAppender value: its parameters go onto the query
RECURSIVE JoinParams(_, _)
JoinParams(q, params) ==
    IF params = <<>> THEN q
    ELSE JoinParams(IF q = <<>> THEN <<Head(params)>>
                    ELSE q \o <<"&", Head(params)>>, Tail(params))
AppendToQuery(v, u) == [u EXCEPT !.RawQuery = JoinParams(@, v.params)]

\* net/http's validMethod: a token; the model's one invalid method has a space
validMethod(m) == m # "BAD METHOD"

\* http.NewRequest, m being the method after "" has become GET and p what
\* url.Parse gave
RequestFor(m, p, hasBody, body) ==
    IF ~validMethod(m) THEN [err |-> "invalid method", req |-> NoRequest]
    ELSE IF p.err # "" THEN [err |-> p.err, req |-> NoRequest]
    ELSE [err |-> "",
          req |-> [ok |-> TRUE, Method |-> m,
                   URL |-> [p.url EXCEPT !.Host = removeEmptyPort(@)],
                   Header |-> NoHeader, HasBody |-> hasBody,
                   Body |-> IF hasBody THEN body ELSE <<>>,
                   BodyLeft |-> hasBody]]

\* http.NewRequest(method, url, body): "" means GET
httpNewRequest(method, url, hasBody, body) ==
    RequestFor(IF method = "" THEN "GET" ELSE method, ParseURL(url), hasBody, body)

\* which body NewRequest goes on with: none for GET
BodyFor(method, body) == IF method = "GET" THEN Nil ELSE body

\* the URL after the QueryAppender step
WithQuery(body, u) ==
    IF IsQueryAppender(body) THEN AppendToQuery(body, u) ELSE u

NewRequestFail(e, out) ==
    [req |-> NoRequest, err |-> ErrorValue(e, "", 0), diag |-> out]

\* Client.NewRequest, lines 120-125: the headers
NewRequestHeaders(hr, hasBody, out) ==
    IF hr.err # "" THEN NewRequestFail(hr.err, out)
    ELSE [req |-> [hr.req EXCEPT
                       !.Header = HeaderSet(IF hasBody
                                            THEN HeaderSet(@, "Content-Type",
                                                           "application/json")
                                            ELSE @,
                                            "Accept", "application/json")],
          err |-> NilError, diag |-> out]

\* Client.NewRequest, line 115: lg is what logf left of the buffer, and
\* what it printed
NewRequestBuild(method, u, hasBody, lg) ==
    NewRequestHeaders(httpNewRequest(method, URLString(u), hasBody, lg.buf),
                      hasBody, lg.out)

\* Client.NewRequest, lines 109-112: enc is what Encode gave
NewRequestEncoded(c, method, u, enc) ==
    IF enc.err # "" THEN NewRequestFail(enc.err, <<>>)
    ELSE NewRequestBuild(method, u, TRUE,
                         logf(c, "request body: %s",
                              [url |-> <<>>, status |-> 0], enc.buf))

\* Client.NewRequest, lines 105-108: b is the body value that is left
NewRequestBody(c, method, u, b) ==
    IF b = Nil
    THEN NewRequestBuild(method, u, FALSE, [out |-> <<>>, buf |-> <<>>])
    ELSE NewRequestEncoded(c, method, u, Encode(b))

\* Client.NewRequest, lines 93-103: r is the resolved URL
NewRequestResolved(c, method, body, r) ==
    IF r.err # "" THEN NewRequestFail(r.err, <<>>)
    ELSE NewRequestBody(c, method, WithQuery(body, r.url),
                        BodyFor(method, body))

\* Client.NewRequest, when nothing stores to c.Logger during its logf
NewRequestResult(c, method, uri, body) ==
    NewRequestResolved(c, method, body, ResolveURI(c.baseURL, uri))

\* whether this NewRequest gets to line 112, the call of logf
ReachesLogf(c, method, uri, body) ==
    /\ ResolveURI(c.baseURL, uri).err = ""
    /\ BodyFor(method, body) # Nil
    /\ Encode(BodyFor(method, body)).err = ""

\* what net/http builds for the methods *Client has from the embedded
\* http.Client: Get(url), Head(url), Post(url, contentType, body)
PromotedHeaders(hr, contentType) ==
    IF hr.err # "" \/ ~hr.req.HasBody THEN hr
    ELSE [hr EXCEPT !.req.Header = HeaderSet(@, "Content-Type", contentType)]
PromotedRequest(method, url, contentType, body) ==
    PromotedHeaders(httpNewRequest(method, url, method = "POST", body),
                    contentType)

-----------------------------------------------------------------------------
(* Responses and Do *)

StatusNotFound == 404
StatusOK == 200
StatusMultipleChoices == 300
\* net/http, reached through c.Client.Do: the redirect that keeps method and
\* body, and the number of requests after which the default policy refuses
\* to follow one more
StatusTemporaryRedirect == 307
RedirectLimit == 10

NoResponse == [ok |-> FALSE, StatusCode |-> 0]

\* transport.RoundTrip: the request as the wrapped transport gets it
RoundTripAddsKey(apiKey, r) ==
    [r EXCEPT !.Header["X-Api-Key"] = Append(@, apiKey)]
RoundTrip(apiKey, r) ==
    [r EXCEPT !.Header = HeaderSet(@, "X-Api-Key", apiKey)]

\* what line 31 finds as t.apiKey when t is not a transport
TornKey == "\\torn"

\* the RoundTrip that a call through via runs is transport.RoundTrip, whose
\* line 31 writes the header
Writes(via) == via \in {"keyed", "torn keyed"}

\* c.Client.Do hands the request to c.Transport as it read it: the
\* transport NewHttpClient installed, the RoundTripper the caller has put in
\* its place, or one word of each
Sent(c, r) ==
    IF Read(c.Transport) = "keyed" THEN RoundTrip(c.apiKey, r)
    ELSE IF Read(c.Transport) = "torn keyed" THEN RoundTrip(TornKey, r)
    ELSE r

\* net/http sends http and https requests that name a host, and a body whose
\* reader still holds it
Reachable(r) ==
    /\ r.URL.Scheme \in {"http", "https"}
    /\ r.URL.Host # <<>>
    /\ r.HasBody => r.BodyLeft

\* where the redirects of the model lead
Moved ==
    [NoURL EXCEPT !.Scheme = "https", !.Host = <<"api.clockify.me">>,
                  !.Path = <<"/", "moved">>]

\* the request net/http builds to follow a 307: method and body of the first
\* request, a copy of the headers it had when Do was called, and the URL it
\* comes from as Referer
Redirected(rq, hops) ==
    [rq EXCEPT !.URL = Moved,
               !.Header = HeaderSet(@, "Referer",
                                    URLString(IF hops = 0 THEN rq.URL ELSE Moved)),
               !.BodyLeft = rq.HasBody]

\* the deferred r.Body.Close(), run when Do returns
BodyNeverClosed(events) == events
BodyClose(events) == Append(events, "Close")

\* the order of the status tests of Do
Classify(status) ==
    IF status = StatusNotFound THEN "notfound"
    ELSE IF status < StatusOK \/ status > StatusMultipleChoices THEN "apierror"
    ELSE "success"

\* the end of Do, reached for a status taken as success: v is the
\* destination (hasV: v is not nil), buf the buffered body
DecodedInto(d) ==
    [err |-> WithStack(IF d.err = "" THEN NilError ELSE ErrorValue(d.err, "", 0)),
     val |-> d.val, decodes |-> 1]

DecodeSuccess(hasV, v, buf) ==
    IF ~hasV THEN [err |-> NilError, val |-> v, decodes |-> 0]
    ELSE IF Len(buf) = 0 THEN [err |-> NilError, val |-> v, decodes |-> 0]
    ELSE DecodedInto(Decode(buf, v))

\* the error of the failure path, d being what decoding the body as an
\* Error gave
DecodedError(d) ==
    WithStack(IF d.err # "" THEN ErrorValue(d.err, "", 0) ELSE APIError(d.val))

\* a call that is under way, of Do or (direct) of a method of the embedded
\* http.Client: where it is (idle: no call), the request object it was given
\* and what that held when the call began, the c.Transport it read,
\* whether the transport took the body from its reader, the
\* destination and what it
\* points to, whether some other access to the request's header map came
\* while the call was sending (raced), whether the transport could send the
\* request, the redirects followed, and the status and the buffered body of
\* the response once they are there
NoCall ==
    [pc |-> "idle", id |-> 0, rq |-> NoRequest, direct |-> FALSE,
     via |-> "", hasV |-> FALSE, v |-> ZeroError, raced |-> FALSE,
     took |-> FALSE, sendable |-> FALSE,
     hops |-> 0, StatusCode |-> 0, body |-> <<>>]

\* what became of the response body: all of it read, or the read broke off
NoAnswer == [StatusCode |-> 0, body |-> <<>>, readOK |-> FALSE]

\* a return of Do: logger is what line 65 read of c.Logger, raced whether
\* the caller stored into the destination while Do decoded into it
NoDo ==
    [called |-> FALSE, rq |-> NoRequest, net |-> NoAnswer, hasV |-> FALSE,
     before |-> ZeroError, resp |-> NoResponse, err |-> NilError,
     val |-> ZeroError, path |-> "", decodes |-> 0, events |-> <<>>,
     diag |-> <<>>, logger |-> FALSE, raced |-> FALSE]

\* the return of the call: nothing decided yet
DoCalled(call) ==
    [NoDo EXCEPT !.called = TRUE, !.rq = call.rq, !.hasV = call.hasV,
                 !.before = call.v, !.val = call.v]

\* Client.Do, lines 130-133: c.Client.Do gave an error and no response
DoFailed(call) ==
    [DoCalled(call) EXCEPT
         !.err = ErrorValue("transport", "", 0), !.path = "transport"]

\* Client.Do, lines 130-133: c.Client.Do gave the error of the redirect
\* policy and with it the last response, whose body net/http has closed
DoRefused(call) ==
    [DoCalled(call) EXCEPT
         !.err = ErrorValue("stopped after 10 redirects", "", 0),
         !.path = "refused",
         !.resp = [ok |-> TRUE, StatusCode |-> StatusTemporaryRedirect],
         !.net = [NoAnswer EXCEPT !.StatusCode = StatusTemporaryRedirect],
         !.events = <<"net/http Close">>]

\* Client.Do, lines 138-141: the read of the body broke off
DoReadFailed(call) ==
    [DoCalled(call) EXCEPT
         !.net = [NoAnswer EXCEPT !.StatusCode = call.StatusCode],
         !.err = WithStack(ErrorValue("read", "", 0)), !.path = "read",
         !.events = BodyClose(<<"read error">>)]

\* Client.Do, lines 134-141: the body was read to its end
DoBuffered(call, body) ==
    [DoCalled(call) EXCEPT
         !.net = [StatusCode |-> call.StatusCode, body |-> body, readOK |-> TRUE],
         !.resp = [ok |-> TRUE, StatusCode |-> call.StatusCode],
         !.events = BodyClose(<<"drained">>)]

\* Client.Do, lines 160-168: d is what the success path gave
DoSuccess(got, d) ==
    [got EXCEPT !.err = d.err, !.val = d.val, !.decodes = d.decodes]

\* Client.Do, lines 145-168: the status tests, buf being the buffered body
DoClassified(got, path, buf) ==
    IF path = "notfound"
    THEN [got EXCEPT !.path = path, !.err = WithStack(ErrorNotFound)]
    ELSE IF path = "apierror"
    THEN [got EXCEPT !.path = path, !.decodes = 1,
                     !.err = DecodedError(Decode(buf, ZeroError))]
    ELSE DoSuccess([got EXCEPT !.path = path],
                   DecodeSuccess(got.hasV, got.before, buf))

\* Client.Do, line 143: lg is what logf left of the buffer, and what it
\* printed
DoLogged(got, lg) ==
    DoClassified([got EXCEPT !.diag = lg.out],
                 Classify(got.resp.StatusCode), lg.buf)

\* Client.Do, lines 143-168, on the buffered body, when nothing stores to
\* c.Logger during its logf nor to the destination during the decoding
DoResult(c, call, body) ==
    DoLogged([DoBuffered(call, body) EXCEPT !.logger = ~IsNil(c.Logger)],
             logf(c, "url: %s, status: %d, body: \"%s\"",
                  [url |-> URLString(call.rq.URL), status |-> call.StatusCode],
                  body))

\* decoder.Decode(v), line 168, stores the fields of the destination one by
\* one.  When the caller stores a value of its own into the destination
\* meanwhile, each field holds at the return what Do left there ("Do") or
\* what the caller put there ("caller"), and the string, which is a pointer
\* and a length, may be neither ("torn").
Mixes == [Message : {"Do", "caller", "torn"}, Code : {"Do", "caller"}]
NoRace == [Message |-> "Do", Code |-> "Do"]
Mixed(val, other, mix) ==
    [Message |-> IF mix.Message = "Do" THEN val.Message
                 ELSE IF mix.Message = "caller" THEN other.Message
                 ELSE "\\torn",
     Code |-> IF mix.Code = "Do" THEN val.Code ELSE other.Code]
\* got is the return of a Do without that store, other what the caller stores
Raced(got, other, mix) ==
    IF mix = NoRace THEN got
    ELSE [got EXCEPT !.raced = TRUE, !.val = Mixed(@, other, mix)]

-----------------------------------------------------------------------------
(* The inputs the calls are made with *)

ApiBaseURL ==
    <<"https", ":", "/", "/", "api.clockify.me", "/", "api", "/", "v1">>
GoodBaseURLs ==
    { ApiBaseURL,
      <<"HTTPS", ":", "/", "/", "api.clockify.me", "/", "api", "/", "v1">>,
      <<"https", ":", "/", "/", "api.clockify.me", ":", "8080", "/", "api", "?">> }
BadBaseURLs ==
    { <<":", "/", "/", "api.clockify.me">>,
      <<"https", ":", "/", "/", "api.clockify.me", "/", "%zz">>,
      <<"%zz", ":", "/", "/", "h">>,
      <<"https", ":", "/", "/", "h", ":", "%zz">> }
BaseURLs == GoodBaseURLs \cup BadBaseURLs
ApiKeys == {"", "key-1"}

Methods == {"GET", "POST", ""}
URIs ==
    { <<"workspaces">>,
      <<"..", "/", "users", "?", "page=1">>,
      <<"users", "?">> }

\* n times the same parameter
Params(n) == [i \in 1..n |-> "hydrated=true"]
Struct == [kind |-> "struct", Message |-> "boom", Code |-> 42, params |-> <<>>]
BodyValues ==
    { Nil, Struct }
    \cup { [kind |-> "query", Message |-> "boom", Code |-> 42,
            params |-> Params(n)] : n \in 1..MaxParams }
Unencodable == [kind |-> "chan", Message |-> "", Code |-> 0, params |-> <<>>]

\* the calls of NewRequest: every method with every URI and body value, and
\* the calls with an invalid method, a URI that does not parse, or a body
\* value that does not encode
NewRequestCalls ==
    (Methods \X URIs \X BodyValues)
    \cup { <<"BAD METHOD", <<"workspaces">>, b>> : b \in BodyValues }
    \cup { <<m, <<"%zz">>, Nil>> : m \in Methods }
    \cup { <<m, <<"workspaces">>, Unencodable>> : m \in {"GET", "POST"} }
\* the calls of NewRequest made where the calls of Do are looked at
FewCalls ==
    { <<"GET", <<"workspaces">>, Nil>>, <<"POST", <<"workspaces">>, Struct>> }

\* the calls of Get, Head and Post, the methods *Client has from the embedded
\* http.Client: method, URL, and for Post the content type and the body
WorkspacesURL == ApiBaseURL \o <<"/", "workspaces">>
PromotedCalls ==
    { <<"GET", WorkspacesURL, "", <<>>>>,
      <<"HEAD", WorkspacesURL, "", <<>>>>,
      <<"POST", WorkspacesURL, "text/plain", Encode(Struct).buf>> }

\* the X-Api-Key values the caller puts on the request it holds
Presets == { [i \in 1..n |-> "other-key"] : n \in 0..MaxPreset }

\* the statuses of the responses c.Client.Do returns
Statuses == {101, 200, 299, 300, 404, 500}
FewStatuses == {200, 500}

Object(message, code) ==
    <<Tok("{"), StrTok("message"), Tok(":"), message, Tok(","),
      StrTok("code"), Tok(":"), code, Tok("}")>>
Spaced ==
    <<Tok("{"), Tok("ws"), StrTok("MESSAGE"), Tok("ws"), Tok(":"), Tok("ws"),
      StrTok("caps"), Tok("ws"), Tok(","), Tok("ws"), StrTok("tags"), Tok(":"),
      Tok("["), Tok("ws"), Tok("true"), Tok("ws"), Tok(","), Tok("ws"),
      NumTok(1), Tok("ws"), Tok("]"), Tok(","), StrTok("Code"), Tok(":"),
      NumTok(9), Tok("ws"), Tok("}")>>
Bodies ==
    { <<>>,
      Object(StrTok("boom"), NumTok(42)),
      <<Tok("{"), StrTok("message"), Tok(":"), StrTok("Nothing was found"),
        Tok("}"), Tok("ws")>>,
      Object(StrTok("late"), StrTok("42")),
      <<Tok("{"), StrTok("message")>>,
      <<Tok("<html>")>>,
      <<Tok("null")>>,
      <<Tok("false")>>,
      Spaced }
FewBodies == { Object(StrTok("boom"), NumTok(42)) }

\* how the reading of a response body ends: it breaks off, or gives a body
Reads(bodies) ==
    { [NoAnswer EXCEPT !.readOK = FALSE] }
    \cup { [NoAnswer EXCEPT !.body = b, !.readOK = TRUE] : b \in bodies }

\* what a destination holds before Do decodes into it, and what the caller
\* may store there meanwhile
DestInit == [Message |-> "old", Code |-> 7]
DestOther == [Message |-> "new", Code |-> 8]

\* the goroutines that call Do
Goroutines == {"a", "b"}

\* the places of the request objects that are alive: at Held the one the
\* caller holds, being the last NewRequest returned, at the others those
\* that only calls under way refer to
Held == 1
Addrs == Held..(Cardinality(Goroutines) + 1)

-----------------------------------------------------------------------------
(* The state machine: one Client, the request objects, the request the     *)
(* caller holds, the NewRequest and the calls of Do that are under way     *)

NoCtor ==
    [called |-> FALSE, baseURL |-> <<>>, apiKey |-> "", client |-> NoClient,
     err |-> NilError]
NoBuild == [pc |-> "idle", method |-> "", uri |-> <<>>, body |-> Nil]
NoNewRequest ==
    [called |-> FALSE, method |-> "", uri |-> <<>>, body |-> Nil,
     req |-> NoRequest, err |-> NilError, diag |-> <<>>, logger |-> FALSE]
NoShadowRequest == [req |-> NoRequest, err |-> NilError, diag |-> <<>>]
NoWire ==
    [called |-> FALSE, given |-> NoRequest, got |-> NoRequest, via |-> "",
     raced |-> FALSE]

Init ==
    /\ client = NoClient
    /\ ctorRet = NoCtor
    /\ heap = [i \in Addrs |-> NoRequest]
    /\ build = NoBuild
    /\ calls = [g \in Goroutines |-> NoCall]
    /\ newReqRet = NoNewRequest
    /\ shadowReq = NoShadowRequest
    /\ wire = NoWire
    /\ doRet = NoDo
    /\ shadowDo = NoDo
    /\ fatal = ""

\* the program has not been stopped by a panic or a fatal error
Running == fatal = ""

\* a step in which NewRequest does not return, nothing gets to the wrapped
\* transport, Do does not return
NothingBuilt == newReqRet' = NoNewRequest /\ shadowReq' = NoShadowRequest
NothingSent == wire' = NoWire
NothingReturned == doRet' = NoDo /\ shadowDo' = NoDo

\* the request object at place i is the one a call under way was given
InUse(cs, i) == \E g \in Goroutines : cs[g].pc # "idle" /\ cs[g].id = i
\* the objects that can still be reached: the one held and those in use
Collect(h, cs) ==
    [i \in Addrs |-> IF i = Held \/ InUse(cs, i) THEN h[i] ELSE NoRequest]
\* a place for an object the caller does not hold: the first not in use
Fresh(cs) ==
    CHOOSE i \in Addrs \ {Held} :
        /\ ~InUse(cs, i)
        /\ \A j \in Addrs \ {Held} : j < i => InUse(cs, j)

\* the runtime stops the program: a panic that nothing recovers, or a fatal
\* error
Stop(why) ==
    /\ fatal' = why
    /\ NothingBuilt /\ NothingSent /\ NothingReturned
    /\ UNCHANGED <<client, ctorRet, heap, build, calls>>

\* NewHttpClient(baseURL, apiKey); the model follows the first Client built
CtorRecord(baseURL, apiKey, r) ==
    [called |-> TRUE, baseURL |-> baseURL, apiKey |-> apiKey,
     client |-> r.client, err |-> r.err]
NewHttpClient(baseURL, apiKey) ==
    /\ Running
    /\ ~client.ok
    /\ ctorRet' = CtorRecord(baseURL, apiKey, NewHttpClientResult(baseURL, apiKey))
    /\ client' = ctorRet'.client
    /\ NothingBuilt /\ NothingSent /\ NothingReturned
    /\ UNCHANGED <<heap, build, calls, fatal>>

\* a goroutine stores into an exported field of the Client
Store(c) ==
    /\ Running
    /\ client.ok
    /\ client' = c
    /\ NothingBuilt /\ NothingSent /\ NothingReturned
    /\ UNCHANGED <<ctorRet, heap, build, calls, fatal>>

\* c.Logger = l, or c.Logger = nil: the store of the first of the two
\* words, w
SetLogger(l, w) ==
    /\ client.Logger.to = ""
    /\ client.Logger.tab # l
    /\ Store([client EXCEPT !.Logger = [@ EXCEPT ![w] = l, !.to = l]])
\* ... and the store of the other word
SetLoggerEnd ==
    /\ client.Logger.to # ""
    /\ Store([client EXCEPT !.Logger = Whole(@.to)])
\* c.Transport = x, or the transport NewHttpClient installed is put back:
\* the store of the first of the two words, w
SetTransport(t, w) ==
    /\ client.Transport.to = ""
    /\ client.Transport.tab # t
    /\ Store([client EXCEPT !.Transport = [@ EXCEPT ![w] = t, !.to = t]])
\* ... and the store of the other word
SetTransportEnd ==
    /\ client.Transport.to # ""
    /\ Store([client EXCEPT !.Transport = Whole(@.to)])
\* c.CheckRedirect = f, or c.CheckRedirect = nil
SetCheckRedirect(p) ==
    client.CheckRedirect # p /\ Store([client EXCEPT !.CheckRedirect = p])

\* the return of c.NewRequest(method, uri, body), c being the Client with
\* the Logger as line 65 read it
NewRequestRecord(method, uri, body, logger, r) ==
    [called |-> TRUE, method |-> method, uri |-> uri, body |-> body,
     req |-> r.req, err |-> r.err, diag |-> r.diag, logger |-> logger]
\* the caller holds what NewRequest returned, r; the request it held, when
\* calls under way were given it, lives on at the place to
Kept(h, cs, r, to) ==
    /\ heap' = [i \in Addrs |-> IF i = Held THEN r
                                 ELSE IF i = to THEN h[Held] ELSE h[i]]
    /\ calls' = [g \in Goroutines |->
                     IF cs[g].pc # "idle" /\ cs[g].id = Held
                     THEN [cs[g] EXCEPT !.id = to] ELSE cs[g]]
Built(c, method, uri, body) ==
    /\ newReqRet' = NewRequestRecord(method, uri, body, ~IsNil(c.Logger),
                                     NewRequestResult(c, method, uri, body))
    /\ shadowReq' = NewRequestResult(OtherLogger(c), method, uri, body)
    /\ IF InUse(calls, Held)
       THEN Kept(heap, calls, newReqRet'.req, Fresh(calls))
       ELSE Kept(heap, calls, newReqRet'.req, Held)
    /\ build' = NoBuild
    /\ NothingSent /\ NothingReturned
    /\ UNCHANGED <<client, ctorRet, fatal>>

\* c.NewRequest(method, uri, body) up to line 65 of its logf, and to its
\* return when it does not get there or finds no Logger
NewRequest(method, uri, body) ==
    /\ Running
    /\ client.ok
    /\ build.pc = "idle"
    /\ IF ~IsNil(client.Logger) /\ ReachesLogf(client, method, uri, body)
       THEN /\ build' = [pc |-> "logging", method |-> method, uri |-> uri,
                         body |-> body]
            /\ NothingBuilt /\ NothingSent /\ NothingReturned
            /\ UNCHANGED <<client, ctorRet, heap, calls, fatal>>
       ELSE Built(client, method, uri, body)

\* line 69 of that logf, and the rest of NewRequest: the call of Printf on
\* c.Logger as it is now, which panics when a word of it is nil, and else
\* runs the Printf that the type word names
NewRequestLog ==
    /\ Running
    /\ build.pc = "logging"
    /\ IF Called(client.Logger) = "panic"
       THEN Stop("panic: nil pointer dereference")
       ELSE Built([client EXCEPT !.Logger = Whole(@.tab)],
                  build.method, build.uri, build.body)

\* line 69 of a logf calls the Printf of one Logger on the data of another:
\* the access of memory faults and the runtime stops the program
LogFault ==
    /\ Running
    /\ "logging" \in {build.pc} \cup {calls[g].pc : g \in Goroutines}
    /\ Called(client.Logger) = "torn"
    /\ Stop("fatal error: fault")

\* the header map of the request at place i is being read, or written, by
\* a call that has it on its way to the wrapped transport
Sending(cs, i) == {g \in Goroutines : cs[g].pc = "set" /\ cs[g].id = i}

\* what the runtime says when it finds a write of a map during another
\* access of it: the other is the read of the transport, or, on a call
\* through transport.RoundTrip, the write of line 31
MapFaults(via) ==
    {"fatal error: concurrent map read and map write"}
        \cup IF Writes(via) THEN {"fatal error: concurrent map writes"}
              ELSE {}

\* the caller puts X-Api-Key values of its own on the request it holds; a
\* call that is sending this request has been raced
SetHeader(preset) ==
    /\ Running
    /\ heap[Held].ok
    /\ heap[Held].Header["X-Api-Key"] # preset
    /\ heap' = [heap EXCEPT ![Held].Header["X-Api-Key"] = preset]
    /\ calls' = [g \in Goroutines |->
                     IF g \in Sending(calls, Held)
                     THEN [calls[g] EXCEPT !.raced = TRUE] ELSE calls[g]]
    /\ NothingBuilt /\ NothingSent /\ NothingReturned
    /\ UNCHANGED <<client, ctorRet, build, fatal>>

\* the runtime finds the caller's write of the header map while a call is
\* sending the request
SetHeaderFault(why) ==
    /\ Running
    /\ heap[Held].ok
    /\ \E g \in Sending(calls, Held) : why \in MapFaults(calls[g].via)
    /\ Stop(why)

\* a call gives the request object at place id to c.Client.Do: line 130 up
\* to the hand-over to the wrapped transport.  The request goes through
\* c.Transport, which with the transport of NewHttpClient is
\* transport.RoundTrip, lines 30-31: the header of the object is written,
\* and a call that is sending the same object has been raced, as this one.
Call(g, id, h, direct, hasV) ==
    /\ heap' = [h EXCEPT ![id] = Sent(client, @)]
    /\ calls' = [o \in Goroutines |->
                     IF o = g
                     THEN [NoCall EXCEPT
                               !.pc = "set", !.id = id, !.rq = h[id],
                               !.direct = direct,
                               !.via = Read(client.Transport),
                               !.hasV = hasV,
                               !.v = IF hasV THEN DestInit ELSE ZeroError,
                               !.raced = /\ Writes(Read(client.Transport))
                                         /\ Sending(calls, id) # {}]
                     ELSE IF o \in Sending(calls, id)
                     THEN [calls[o] EXCEPT
                               !.raced = @ \/ Writes(Read(client.Transport))]
                     ELSE calls[o]]
    /\ NothingBuilt /\ NothingSent /\ NothingReturned
    /\ UNCHANGED <<client, ctorRet, build, fatal>>

\* goroutine g calls c.Do(req, v) with the request the caller holds, v nil
\* or pointing to a fresh value; or (direct) it calls c.Client.Do(req), the
\* method of the embedded http.Client, which does no more than line 130
DoCall(g, direct, hasV) ==
    /\ Running
    /\ client.ok
    /\ heap[Held].ok
    /\ calls[g].pc = "idle"
    /\ direct => ~hasV
    /\ Call(g, Held, heap, direct, hasV)

\* goroutine g calls c.Get, c.Head or c.Post: net/http builds the request
\* and gives it to c.Client.Do
PromotedCall(g, id, hr) ==
    /\ hr.err = ""
    /\ Call(g, id, [heap EXCEPT ![id] = hr.req], TRUE, FALSE)
ClientGet(g, method, url, contentType, body) ==
    /\ Running
    /\ client.ok
    /\ calls[g].pc = "idle"
    /\ PromotedCall(g, Fresh(calls),
                    PromotedRequest(method, url, contentType, body))

\* the runtime finds the write of line 31 while another call is sending the
\* same request
DoCallFault(g, why) ==
    /\ Running
    /\ client.ok
    /\ heap[Held].ok
    /\ calls[g].pc = "idle"
    /\ Writes(Read(client.Transport))
    /\ \E o \in Sending(calls, Held) : why \in MapFaults(calls[o].via)
    /\ Stop(why)

\* another call has the transport read the body of the request at place i
Reading(cs, g, i) ==
    \E o \in Goroutines \ {g} :
        cs[o].pc = "sent" /\ cs[o].id = i /\ cs[o].took

\* whether the transport of call g finds the body of the request r in its
\* reader, a bytes.Buffer: as the reader holds it; or, when another call
\* has it read with no order between the two, there as well
Finds(cs, g, r) ==
    {r.BodyLeft} \cup IF r.HasBody /\ Reading(cs, g, cs[g].id) THEN {TRUE}
                      ELSE {}

\* line 33: the wrapped transport takes the request as the object holds it
\* now, and reads the body (reads) or gets no further than that
Passed(g, r, reads) ==
    /\ reads => (r.HasBody /\ r.BodyLeft)
    /\ wire' = [called |-> TRUE, given |-> calls[g].rq, got |-> r,
                via |-> calls[g].via, raced |-> calls[g].raced]
    /\ heap' = [heap EXCEPT ![calls[g].id].BodyLeft = @ /\ ~reads]
    /\ calls' = [calls EXCEPT ![g].pc = "sent", ![g].took = reads,
                              ![g].sendable = Reachable(r)]
    /\ NothingBuilt /\ NothingReturned
    /\ UNCHANGED <<client, ctorRet, build, fatal>>
DoPass(g, reads) ==
    /\ Running
    /\ calls[g].pc = "set"
    /\ \E there \in Finds(calls, g, heap[calls[g].id]) :
           Passed(g, [heap[calls[g].id] EXCEPT !.BodyLeft = there], reads)

\* the call of g is at a RoundTrip through a c.Transport read torn: on its
\* way to the wrapped transport, or about to follow a redirect
AtTorn(c, call) ==
    IF call.pc = "set" THEN call.via \in {"torn keyed", "torn plain"}
    ELSE /\ call.pc = "moving"
         /\ call.hops + 1 < RedirectLimit
         /\ Read(c.Transport) \in {"torn keyed", "torn plain"}

\* lines 30-34 run on what is no transport, or not as a method of
\* transport: the access of memory faults and the runtime stops the program
TransportFault(g) ==
    /\ Running
    /\ AtTorn(client, calls[g])
    /\ Stop("fatal error: fault")

\* a call ends: its request object is no longer in use
Ended(g) ==
    /\ calls' = [calls EXCEPT ![g] = NoCall]
    /\ heap' = Collect(heap, calls')
    /\ NothingBuilt /\ NothingSent
    /\ UNCHANGED <<client, ctorRet, build, fatal>>

\* Do returns ret (on the Client with the Logger the other way: other); a
\* direct call returns what c.Client.Do gave, and Do has no part in it
Return(g, ret, other) ==
    /\ doRet' = IF calls[g].direct THEN NoDo ELSE ret
    /\ shadowDo' = IF calls[g].direct THEN NoDo ELSE other
    /\ Ended(g)

\* line 130: c.Client.Do fails without a response; line 132 returns
DoFail(g) ==
    /\ Running
    /\ calls[g].pc = "sent"
    /\ Return(g, DoFailed(calls[g]), DoFailed(calls[g]))

\* the request of the call got to a server
Answered(call) == call.hops > 0 \/ call.sendable

\* line 130: c.Client.Do returns a response with this status.  A direct call
\* ends here; Do goes on with lines 134-138, up to the wait for the body.
Receive(g, status) ==
    IF calls[g].direct THEN /\ NothingReturned
                            /\ Ended(g)
    ELSE /\ calls' = [calls EXCEPT ![g].pc = "received",
                                   ![g].StatusCode = status, ![g].hops = 0]
         /\ NothingBuilt /\ NothingSent /\ NothingReturned
         /\ UNCHANGED <<client, ctorRet, heap, build, fatal>>

\* net/http follows a redirect: a new request, with a copy of the headers
\* the first request had when the call began, goes through c.Transport as
\* c.send reads it now
Follow(g, r) ==
    /\ wire' = [called |-> TRUE, given |-> r, got |-> Sent(client, r),
                via |-> Read(client.Transport), raced |-> FALSE]
    /\ calls' = [calls EXCEPT ![g].pc = "sent", ![g].hops = @ + 1]
    /\ NothingBuilt /\ NothingReturned
    /\ UNCHANGED <<client, ctorRet, heap, build, fatal>>

\* line 130: the answer is a 307 with a Location, and net/http looks at
\* c.CheckRedirect.  With a policy that says http.ErrUseLastResponse
\* c.Client.Do returns this response; without a policy net/http is to
\* follow the redirect, or, after RedirectLimit requests, to give up, and
\* first reads what it has of the body of the answer and closes it: a wait.
\* The servers redirect a call at most `most` times.
DoRedirect(g, most) ==
    /\ Running
    /\ calls[g].pc = "sent"
    /\ Answered(calls[g])
    /\ calls[g].hops < most
    /\ IF client.CheckRedirect = "last"
       THEN Receive(g, StatusTemporaryRedirect)
       ELSE /\ calls' = [calls EXCEPT ![g].pc = "moving"]
            /\ NothingBuilt /\ NothingSent /\ NothingReturned
            /\ UNCHANGED <<client, ctorRet, heap, build, fatal>>

\* line 130, after that wait: c.send reads c.Transport and the next request
\* goes out; or net/http has given up, and line 132 returns
DoFollow(g) ==
    /\ Running
    /\ calls[g].pc = "moving"
    /\ IF calls[g].hops + 1 < RedirectLimit
       THEN Follow(g, Redirected(calls[g].rq, calls[g].hops))
       ELSE Return(g, DoRefused(calls[g]), DoRefused(calls[g]))

\* line 130: c.Client.Do returns a response with this status
DoRespond(g, status) ==
    /\ Running
    /\ calls[g].pc = "sent"
    /\ Answered(calls[g])
    /\ Receive(g, status)

\* the caller stores into the value v points to while the call is under way
\* and before Do decodes
WriteDest(g) ==
    /\ Running
    /\ calls[g].pc # "idle"
    /\ calls[g].hasV
    /\ calls[g].v = DestInit
    /\ calls' = [calls EXCEPT ![g].v = DestOther]
    /\ NothingBuilt /\ NothingSent /\ NothingReturned
    /\ UNCHANGED <<client, ctorRet, heap, build, fatal>>

\* lines 145-168 after a logf that read the Logger of c: Do returns.  With
\* a mix other than NoRace the caller stores DestOther into the destination
\* while line 168 decodes into it.
Finish(g, c, body, mix) ==
    /\ mix # NoRace =>
           /\ DoResult(c, calls[g], body).path = "success"
           /\ DoResult(c, calls[g], body).decodes = 1
    /\ Return(g, Raced(DoResult(c, calls[g], body), DestOther, mix),
                 Raced(DoResult(OtherLogger(c), calls[g], body), DestOther, mix))

\* line 138: the read of the body ends as rd says.  When it broke off Do
\* returns; else Do goes on to line 65 of its logf, and to its return when
\* it finds no Logger
DoRead(g, rd, mix) ==
    /\ Running
    /\ calls[g].pc = "received"
    /\ IF ~rd.readOK
       THEN /\ mix = NoRace
            /\ Return(g, DoReadFailed(calls[g]), DoReadFailed(calls[g]))
       ELSE IF ~IsNil(client.Logger)
       THEN /\ mix = NoRace
            /\ calls' = [calls EXCEPT ![g].pc = "logging", ![g].body = rd.body]
            /\ NothingBuilt /\ NothingSent /\ NothingReturned
            /\ UNCHANGED <<client, ctorRet, heap, build, fatal>>
       ELSE Finish(g, client, rd.body, mix)

\* line 69 of that logf, and lines 145-168: the call of Printf on c.Logger
\* as it is now, which panics on nil
DoLog(g, mix) ==
    /\ Running
    /\ calls[g].pc = "logging"
    /\ IF Called(client.Logger) = "panic"
       THEN /\ mix = NoRace
            /\ Stop("panic: nil pointer dereference")
       ELSE Finish(g, [client EXCEPT !.Logger = Whole(@.tab)],
                   calls[g].body, mix)

\* two goroutines that call Do on the one Client with the request the
\* caller holds, on few answers, while the Logger is set and cleared
Next ==
    \/ NewHttpClient(ApiBaseURL, "key-1")
    \/ \E l \in {"nil", "log"}, w \in {"tab", "data"} : SetLogger(l, w)
    \/ SetLoggerEnd
    \/ NewRequest("POST", <<"workspaces">>, Struct)
    \/ NewRequestLog
    \/ \E g \in Goroutines : DoCall(g, FALSE, TRUE)
    \/ \E g \in Goroutines, why \in MapFaults("keyed") : DoCallFault(g, why)
    \/ \E g \in Goroutines, reads \in BOOLEAN : DoPass(g, reads)
    \/ \E g \in Goroutines : DoFail(g)
    \/ \E g \in Goroutines, st \in FewStatuses : DoRespond(g, st)
    \/ \E g \in Goroutines, rd \in Reads(FewBodies) : DoRead(g, rd, NoRace)
    \/ \E g \in Goroutines : DoLog(g, NoRace)

Spec == Init /\ [][Next]_vars

\* the construction of Clients and the building of requests, on all the
\* base URLs and all the calls of NewRequest
NextBuilder ==
    \/ \E b \in BaseURLs, k \in ApiKeys : NewHttpClient(b, k)
    \/ \E l \in {"nil", "log", "other"}, w \in {"tab", "data"} : SetLogger(l, w)
    \/ SetLoggerEnd
    \/ LogFault
    \/ \E a \in NewRequestCalls : NewRequest(a[1], a[2], a[3])
    \/ NewRequestLog

SpecBuilder == Init /\ [][NextBuilder]_vars

\* one goroutine that calls Do, on all the answers of the network, with a
\* caller that stores into the redirect policy and the destination
\* meanwhile
NextOneCall ==
    \/ \E k \in ApiKeys : NewHttpClient(ApiBaseURL, k)
    \/ \E p \in {"default", "last"} : SetCheckRedirect(p)
    \/ \E a \in FewCalls : NewRequest(a[1], a[2], a[3])
    \/ \E hasV \in BOOLEAN : DoCall("a", FALSE, hasV)
    \/ \E reads \in BOOLEAN : DoPass("a", reads)
    \/ DoFail("a")
    \/ DoRedirect("a", RedirectLimit)
    \/ DoFollow("a")
    \/ \E st \in Statuses : DoRespond("a", st)
    \/ WriteDest("a")
    \/ \E rd \in Reads(Bodies), mix \in Mixes : DoRead("a", rd, mix)

SpecOneCall == Init /\ [][NextOneCall]_vars

\* one goroutine that sends requests through the Client, by Do and by the
\* methods of the embedded http.Client, with a caller that stores into the
\* Transport and into the header of the request meanwhile
NextTransport ==
    \/ \E k \in ApiKeys : NewHttpClient(ApiBaseURL, k)
    \/ \E t \in {"keyed", "plain"}, w \in {"tab", "data"} : SetTransport(t, w)
    \/ SetTransportEnd
    \/ \E p \in {"default", "last"} : SetCheckRedirect(p)
    \/ TransportFault("a")
    \/ NewRequest("POST", <<"workspaces">>, Struct)
    \/ \E p \in Presets : SetHeader(p)
    \/ \E why \in MapFaults("keyed") : SetHeaderFault(why)
    \/ \E direct \in BOOLEAN : DoCall("a", direct, FALSE)
    \/ \E c \in PromotedCalls : ClientGet("a", c[1], c[2], c[3], c[4])
    \/ \E reads \in BOOLEAN : DoPass("a", reads)
    \/ DoFail("a")
    \/ DoRedirect("a", MaxRedirects)
    \/ DoFollow("a")
    \/ DoRespond("a", StatusOK)
    \/ \E rd \in Reads({<<>>}) : DoRead("a", rd, NoRace)

SpecTransport == Init /\ [][NextTransport]_vars

-----------------------------------------------------------------------------
(* Properties *)

\* the Do that returned in this step had a response from c.Client.Do and no
\* error with it
Responded == doRet.called /\ doRet.path \notin {"transport", "refused"}
\* ... and read its body to the end
Buffered == Responded /\ doRet.net.readOK
Status == doRet.net.StatusCode

\* C1: for every status other than 404 whose body was read, Do takes the
\* success path exactly when 200 <= status < 300; every other status, 300
\* included, takes the failure path and returns a non-nil error, the decoded
\* APIError or the decode error.
C1_SuccessIffStatusBelow300 ==
    (Buffered /\ Status # 404) =>
        /\ (doRet.path = "success") <=> (200 <= Status /\ Status < 300)
        /\ ~(200 <= Status /\ Status < 300) =>
               /\ doRet.path = "apierror"
               /\ doRet.err # NilError

\* C2: whenever the transport delivers a response with status 404, Do
\* returns that response and the NotFoundError sentinel, whatever the body
\* holds, parses nothing and leaves the destination alone.
C2_NotFoundWheneverDelivered ==
    (Responded /\ Status = 404) =>
        /\ doRet.resp.ok /\ doRet.resp.StatusCode = 404
        /\ Cause(doRet.err) = ErrorNotFound
        /\ doRet.decodes = 0
        /\ doRet.val = doRet.before

\* what Do does keep: when the copy of line 138 did not fail, a response
\* with status 404 comes back with the NotFoundError sentinel, whatever the
\* body holds, nothing is parsed and the destination is left alone
NotFoundWhenBuffered ==
    (Buffered /\ Status = 404) =>
        /\ doRet.resp.ok /\ doRet.resp.StatusCode = 404
        /\ Cause(doRet.err) = ErrorNotFound
        /\ doRet.decodes = 0
        /\ doRet.val = doRet.before

NotFoundWitness ==
    /\ Buffered /\ Status = 404 /\ doRet.hasV
    /\ doRet.net.body = Object(StrTok("boom"), NumTok(42))
    /\ doRet.err = WithStack(ErrorNotFound)
    /\ doRet.val = DestInit

\* C3: after a call of Do that buffered a response, the error under the
\* stack equals the NotFoundError sentinel if and only if the status was
\* 404; an APIError decoded from a non-404 body never equals the sentinel.
C3_SentinelIffNotFound ==
    Buffered => ((Cause(doRet.err) = ErrorNotFound) <=> (Status = 404))

\* how often the body reader of the response was closed
Closes(ev) ==
    Cardinality({i \in 1..Len(ev) : ev[i] \in {"Close", "net/http Close"}})

\* C4: on every return of Do after c.Client.Do gave a response to work on
\* (success, 404, APIError, a decode failure, a failed read of the body),
\* the body reader has been closed exactly once, as the last thing done with
\* it and after the copy into the buffer (a full drain, or the read that
\* failed); and where c.Client.Do gave a response together with an error,
\* net/http has closed the body and Do does not close it again.
C4_BodyClosedOnceAfterDrain ==
    /\ Responded =>
           /\ Closes(doRet.events) = 1
           /\ Len(doRet.events) = 2
           /\ doRet.events[2] = "Close"
           /\ doRet.events[1] = IF doRet.net.readOK THEN "drained" ELSE "read error"
    /\ (doRet.called /\ doRet.path = "refused") => Closes(doRet.events) = 1

C4_Witness ==
    /\ Buffered /\ doRet.path = "success" /\ doRet.decodes = 1
    /\ doRet.err # NilError
    /\ doRet.events = <<"drained", "Close">>

WithoutApiKey(r) == [r EXCEPT !.Header["X-Api-Key"] = <<>>]

\* C5: in any sequence of calls of NewRequest and Do on a Client that keeps
\* the transport NewHttpClient gave it, every request that reaches the
\* wrapped transport (the first of a call of Do, or of a call of a method of
\* the embedded http.Client, and those that follow its redirects) carries
\* X-Api-Key with the construction key as its single value, whatever the
\* caller had put there before the call, and is otherwise the request it
\* was before the decorator; the Client's key and base URL never change
\* once it is built.  A request whose header the caller wrote during the
\* call, and a request sent after the caller began to store into
\* c.Transport (it goes out without the key, with a key read from what is
\* no transport, or the program faults), are not in such a sequence.
C5_Step ==
    /\ client.ok => /\ client'.ok
                    /\ client'.apiKey = client.apiKey
                    /\ client'.baseURL = client.baseURL
    /\ (wire'.called /\ wire'.via = "keyed" /\ ~wire'.raced) =>
           /\ wire'.got.Header["X-Api-Key"] = <<ctorRet'.apiKey>>
           /\ WithoutApiKey(wire'.got) = WithoutApiKey(wire'.given)
C5_ApiKeyOnEveryRequest == [][C5_Step]_vars

C5_Witness ==
    /\ wire.called /\ wire.via = "keyed" /\ ~wire.raced
    /\ wire.given.URL = Moved
    /\ wire.given.Header["X-Api-Key"] = <<"other-key">>
    /\ wire.got.Header["X-Api-Key"] = <<"key-1">>
    /\ wire.got.HasBody

\* the query of a URI string, and the parameters of a query
QueryOf(uri) ==
    IF IndexOf(uri, "?") = 0 THEN <<>>
    ELSE SubSeq(uri, IndexOf(uri, "?") + 1, Len(uri))
IsParam(x) == x # "&"
ParamsOf(q) == SelectSeq(q, IsParam)

\* the QueryAppender part of C6: the parameters of a QueryAppender body
\* value follow those of the URI in the request's query, for every method
QueryRewritten ==
    ParamsOf(newReqRet.req.URL.RawQuery)
        = ParamsOf(QueryOf(newReqRet.uri)) \o newReqRet.body.params

\* C6: every request NewRequest returns whose HTTP method is GET has no
\* body, and a QueryAppender body value rewrites the query for every method.
C6_GetRequestHasNoBody ==
    (newReqRet.called /\ newReqRet.req.ok) =>
        /\ newReqRet.req.Method = "GET" =>
               ~newReqRet.req.HasBody /\ newReqRet.req.Body = <<>>
        /\ QueryRewritten

\* what NewRequest does keep: a request built for the method argument "GET"
\* has no body, even for a non-nil body value, and a QueryAppender body value
\* rewrites the query for every method
GetArgumentHasNoBody ==
    (newReqRet.called /\ newReqRet.req.ok) =>
        /\ newReqRet.method = "GET" =>
               ~newReqRet.req.HasBody /\ newReqRet.req.Body = <<>>
        /\ QueryRewritten

GetArgumentWitness ==
    /\ newReqRet.called /\ newReqRet.req.ok
    /\ newReqRet.method = "GET"
    /\ IsQueryAppender(newReqRet.body)
    /\ ~newReqRet.req.HasBody
    /\ newReqRet.req.URL.RawQuery = <<"page=1", "&", "hydrated=true">>

\* C7: every request NewRequest returns carries Accept: application/json;
\* it carries Content-Type: application/json exactly when a body is
\* attached, which is exactly when the method argument is not "GET" and the
\* body value is not nil; the attached body decodes to the body value, and
\* without a body value there is no body.
C7_HeadersAndBodyRoundTrip ==
    (newReqRet.called /\ newReqRet.req.ok) =>
        LET r == newReqRet.req
            d == Decode(r.Body, ZeroError)
        IN /\ r.Header["Accept"] = <<"application/json">>
           /\ r.Header["Content-Type"] =
                  IF r.HasBody THEN <<"application/json">> ELSE <<>>
           /\ r.HasBody <=> (newReqRet.method # "GET" /\ newReqRet.body # Nil)
           /\ r.HasBody =>
                  /\ d.err = ""
                  /\ d.val = [Message |-> newReqRet.body.Message,
                              Code |-> newReqRet.body.Code]
           /\ ~r.HasBody => r.Body = <<>>

C7_Witness ==
    /\ newReqRet.called /\ newReqRet.req.ok
    /\ newReqRet.method = "POST"
    /\ newReqRet.body.kind = "struct"
    /\ newReqRet.req.HasBody
    /\ newReqRet.req.Header["Content-Type"] = <<"application/json">>

\* what C8 says of a call of Do with a status in [200,300); the destination
\* holds what Do decoded unless its caller stored into it meanwhile
SuccessContract ==
    /\ (~doRet.hasV \/ doRet.net.body = <<>>) =>
           /\ doRet.resp.ok
           /\ doRet.err = NilError
           /\ doRet.decodes = 0
           /\ doRet.val = doRet.before
    /\ (doRet.hasV /\ doRet.net.body # <<>>) =>
           LET d == Decode(doRet.net.body, doRet.before) IN
           /\ doRet.resp.ok
           /\ doRet.decodes = 1
           /\ ~doRet.raced => doRet.val = d.val
           /\ (d.err = "") <=> (doRet.err = NilError)
           /\ d.err # "" => Cause(doRet.err).kind = d.err

\* C8: for a response with status in [200,300), without a
\* destination or with an empty body Do returns the response and no error,
\* decodes nothing and leaves the destination alone; otherwise it decodes
\* the body into the destination and returns a decode failure as the error.
C8_SuccessWheneverDelivered ==
    (Responded /\ 200 <= Status /\ Status < 300) => SuccessContract

\* what Do does keep: the same, when the copy of line 138 did not fail
SuccessWhenBuffered ==
    (Buffered /\ 200 <= Status /\ Status < 300) => SuccessContract

SuccessWitness ==
    /\ Buffered /\ Status = 200 /\ doRet.hasV /\ doRet.net.body = <<>>
    /\ doRet.resp.ok /\ doRet.err = NilError
    /\ doRet.val = DestInit

\* the base URL string as url.Parse and URL.String give it back: the scheme
\* in lower case
LowerScheme(s) == [s EXCEPT ![1] = ToLower(@)]

\* C9: NewHttpClient with an empty key fails with the missing-API-key error
\* and gives no Client, whatever the base URL; with a key and a base URL
\* that parses it gives a Client holding that URL and key; with a key and a
\* base URL that does not parse it fails with the parse error; and it sends
\* nothing.
C9_Step ==
    ctorRet' # ctorRet =>
        LET r == ctorRet' IN
        /\ client' = r.client
        /\ r.apiKey = "" =>
               ~r.client.ok /\ r.err = WithStack(ErrorMissingAPIKey)
        /\ (r.apiKey # "" /\ r.baseURL \in GoodBaseURLs) =>
               /\ r.err = NilError
               /\ r.client.ok
               /\ URLString(r.client.baseURL) = LowerScheme(r.baseURL)
               /\ r.client.apiKey = r.apiKey
        /\ (r.apiKey # "" /\ r.baseURL \in BadBaseURLs) =>
               /\ ~r.client.ok
               /\ r.err.stack
               /\ r.err.kind \in
                      {"missing protocol scheme", "invalid URL escape",
                       "invalid port",
                       "first path segment in URL cannot contain colon"}
        /\ wire' = NoWire
        /\ calls' = calls
C9_Construction == [][C9_Step]_vars

C9_Witness ==
    /\ ctorRet.called /\ ctorRet.apiKey = ""
    /\ ctorRet.baseURL \in BadBaseURLs
    /\ ctorRet.err = WithStack(ErrorMissingAPIKey)
    /\ ~client.ok

\* what a caller sees of a Do: all but the diagnostics
Seen(d) == [d EXCEPT !.diag = <<>>, !.logger = FALSE]

\* C10: the same call with the same inputs and the same answers of the
\* network, on the Client and on the Client with the Logger the other way,
\* gives the same request, response, error and destination contents; only
\* the Client with a Logger emits diagnostics.  The Logger is the one the
\* call found at line 65, whatever it was before.
C10_LoggerPreservesBehaviour ==
    /\ newReqRet.called =>
           /\ shadowReq.req = newReqRet.req
           /\ shadowReq.err = newReqRet.err
           /\ Len(IF newReqRet.logger THEN shadowReq.diag
                  ELSE newReqRet.diag) = 0
    /\ doRet.called =>
           /\ Seen(shadowDo) = Seen(doRet)
           /\ Len(IF doRet.logger THEN shadowDo.diag ELSE doRet.diag) = 0

C10_Witness ==
    /\ doRet.called /\ doRet.logger
    /\ Len(doRet.diag) = 1 /\ Len(shadowDo.diag) = 0
    /\ doRet.rq.HasBody
    /\ doRet.path = "success" /\ doRet.decodes = 1 /\ doRet.err = NilError
    /\ calls["b"].pc = "received"

====
